---- MODULE Spec2Model ----
(***************************************************************************)
(* A model of simple-shell (src/shell.c): the dispatch loop of mainLoop,   *)
(* readLine, parseLine, executeCommand and the builtins, the fork / wait   *)
(* cycle of startProcess, the SIGINT handler, and the life of the forked   *)
(* children as seen by the interpreter.                                    *)
(*                                                                         *)
(* Text is a sequence of pieces.  A piece is either one of the two         *)
(* delimiter characters of strtok (" " and "\n") or an indivisible run of  *)
(* ordinary characters ("cd", "help", "echo", "exit", "a"); a token is the *)
(* sequence of pieces between delimiters, so <<"cd","a">> is the word      *)
(* "cda" and strcmp(token, "cd") = 0 exactly when token = <<"cd">>.        *)
(***************************************************************************)
EXTENDS Integers, Sequences, FiniteSets, TLC

\* Longest line (in pieces) the input stream delivers.
MaxLen == 3

\* Most spaces between two words of the long lines.
MaxGap == 2

\* Number of process ids fork() can hand out.
NumPids == 2

\* size_t buffer_size = 80
buffer_size == 80

\* sizeof(char*)
PtrSize == 8

\* What a never-written slot of the token array may point to.
StaleTokens == {<<"a">>}

\* const int num_builtins = 4
num_builtins == 4

\* char *builtin_commands[]
builtin_commands == <<"cd", "help", "echo", "exit">>

Delims_spaceOnly == {" "}

\* The delimiter string of both strtok calls.
Delims == {" ", "\n"}

Words == {"cd", "help", "echo", "exit", "a"}

\* The alphabet of lines: ordinary pieces, space and newline.
Chars == Words \cup {" ", "\n"}

\* pid_t pid = -1: the value that means "no child".
NoPid == -1

ChildPids == 1..NumPids

\* The directories chdir() can enter; every other path makes it fail.
Dirs == {<<"a">>}

\* The working directory the interpreter is started in.
StartDir == <<"/">>

SeqsUpTo(S, n) == UNION {[1..k -> S] : k \in 0..n}

\* What getline() stores when it returns a line: at least one character, and
\* a newline only as the last one.
InputLines == {l \in SeqsUpTo(Chars, MaxLen) :
                 /\ Len(l) > 0
                 /\ \A i \in 1..(Len(l) - 1) : l[i] # "\n"}

\* What the malloc'd buffer can hold when getline() returns -1 without
\* storing anything: the buffer is never written, so its content is
\* indeterminate.
StaleBuffers == SeqsUpTo(Chars, MaxLen)

\* Number of characters of a piece, and of a line.
CharLen(c) ==
  CASE c = "cd" -> 2
    [] c \in {"help", "echo", "exit"} -> 4
    [] OTHER -> 1

LineChars(l) ==
  Len(l) + Cardinality({i \in 1..Len(l) : CharLen(l[i]) = 2})
         + 3 * Cardinality({i \in 1..Len(l) : CharLen(l[i]) = 4})

\* n copies of the sequence s, one after the other.
Repeat(s, n) == [i \in 1..(n * Len(s)) |-> s[((i - 1) % Len(s)) + 1]]

\* A line of k words: w, then k - 1 times g spaces and the word a, with or
\* without the newline.
LongLine(w, k, g, nl) ==
  <<w>> \o Repeat(Repeat(<<" ">>, g) \o <<"a">>, k - 1) \o (IF nl THEN <<"\n">> ELSE <<>>)

\* The lines of that shape that getline stores without growing the buffer:
\* at most buffer_size - 1 characters before the terminating NUL.
LongLines ==
  {l \in {LongLine(w, k, g, nl) :
            w \in Words, k \in 1..(buffer_size \div 2), g \in 1..MaxGap, nl \in BOOLEAN} :
     LineChars(l) <= buffer_size - 1}

Prompt == <<"simple-shell> ">>

Notice == <<"\nsimple-shell terminated\n">>

HelpText == <<"Commands available: cd, help, echo, exit\n">>

CdFailed == <<"cd failed, check your path\n">>

VARIABLES
  pc,            \* where the interpreter's main control flow is
  handlerSet,    \* signal(SIGINT, signalHandler) has been called
  pid,           \* the global pid_t pid
  status,        \* mainLoop's int status
  line,          \* mainLoop's char *line (<<>> when freed / not yet read)
  lineSrc,       \* "none", "input" (getline stored it) or "eof" (getline returned -1)
  tokens,        \* mainLoop's char **tokens: the vector a reader finds, up to the first NULL
  eof,           \* stdin has reached end-of-input
  cwd,           \* the process's working directory
  out,           \* the text of the most recent write to stdout
  ret,           \* the value fork() returned, not yet stored in pid
  child_status,  \* startProcess's int child_status
  children,      \* state of the process with each id, as a child of the interpreter
  kills,         \* the kill() calls made so far: who called, on which target
  termBy,        \* how the interpreter ended ("none" while it runs)
  exitCode,      \* its exit code (NoCode while it runs or when a signal killed it)
  intAt,         \* pc at the moment SIGINT was delivered ("none" if never)
  intLive,       \* the unreaped children at that moment
  err,           \* the text of the interpreter's most recent write to stderr
  num_tokens     \* mainLoop's int num_tokens

vars == <<pc, handlerSet, pid, status, line, lineSrc, tokens, eof, cwd, out,
          ret, child_status, children, kills, termBy, exitCode, intAt, intLive,
          err, num_tokens>>

NoCode == -1

----------------------------------------------------------------------------
(* Pure functions *)

SkipDelims_none(s, i) == i

\* strtok skips leading delimiters ...
RECURSIVE SkipDelims(_, _)
SkipDelims(s, i) ==
  IF i <= Len(s) /\ s[i] \in Delims THEN SkipDelims(s, i + 1) ELSE i

\* ... and the token runs up to the next delimiter or the end of the string.
RECURSIVE TokenEnd(_, _)
TokenEnd(s, i) ==
  IF i <= Len(s) /\ s[i] \notin Delims THEN TokenEnd(s, i + 1) ELSE i

\* The loop of parseLine: one strtok call per iteration, starting at index i.
RECURSIVE strtokLoop(_, _)
strtokLoop(s, i) ==
  LET b == SkipDelims(s, i)
      e == TokenEnd(s, b)
  IN  IF b > Len(s) THEN <<>>
      ELSE <<SubSeq(s, b, e - 1)>> \o strtokLoop(s, e + 1)

parseLine(l) == strtokLoop(l, 1)

\* malloc(sizeof(char*) * (buffer_size / 2)): the number of slots of the array.
TokenCapacity(bs) == bs \div 2

\* memset(buffer, 0, buffer_size/2) clears buffer_size/2 bytes: the number of
\* slots that are wholly zero afterwards.
ZeroedSlots(bs) == (bs \div 2) \div PtrSize

\* What a reader finds from slot n on, n being the number of tokens stored:
\* NULL when that slot was cleared by the memset; otherwise the slot was never
\* written (or lies past the end of the array) and its content is
\* indeterminate, NULL or a pointer to some old string.
SlotsAfter(n, bs) ==
  IF n < ZeroedSlots(bs) THEN {<<>>} ELSE {<<>>} \cup {<<g>> : g \in StaleTokens}

\* The array parseLine returns, as a reader walking to the first NULL sees it.
TokenArrays(l) ==
  {parseLine(l) \o g : g \in SlotsAfter(Len(parseLine(l)), buffer_size)}

\* args[i] of the NULL-terminated vector (C index); <<>> stands for NULL.
Arg(args, i) == IF i < Len(args) THEN args[i + 1] ELSE <<>>

\* The lookup loop of executeCommand: index (1-based) of the first builtin
\* whose name equals args[0], or 0.
RECURSIVE FindBuiltin(_, _)
FindBuiltin_firstOnly(name, i) == IF name = <<builtin_commands[i]>> THEN i ELSE 0

FindBuiltin(name, i) ==
  IF i > num_builtins THEN 0
  ELSE IF name = <<builtin_commands[i]>> THEN i
  ELSE FindBuiltin(name, i + 1)

\* chdir(path): 0 when the directory can be entered, -1 otherwise.
chdir(path) == IF path \in Dirs THEN 0 ELSE -1

simpleShellCdCwd_home(args, dir) ==
  IF Arg(args, 1) # <<>>
    THEN IF chdir(Arg(args, 1)) = 0 THEN Arg(args, 1) ELSE dir
    ELSE StartDir

\* The working directory simpleShellCd leaves: chdir(args[1]) is called only
\* when args[1] is not NULL.
simpleShellCdCwd(args, dir) ==
  IF Arg(args, 1) # <<>>
    THEN IF chdir(Arg(args, 1)) = 0 THEN Arg(args, 1) ELSE dir
    ELSE dir

\* printf("%s ", args[i]) for i = 1, 2, ... then printf("\n").
RECURSIVE EchoFrom(_, _)
EchoFrom(args, i) ==
  IF Arg(args, i) = <<>> THEN <<"\n">>
  ELSE Arg(args, i) \o <<" ">> \o EchoFrom(args, i + 1)

simpleShellEchoOutput(args) == EchoFrom(args, 1)

\* Return values of the builtins and of startProcess's parent branch.
simpleShellCdReturn == 1

simpleShellHelpReturn == 1

simpleShellEchoReturn == 1

simpleShellExitReturn_continue == simpleShellCdReturn

simpleShellExitReturn == 0

startProcessReturn_stop == 1 - 1

startProcessReturn == 1

BuiltinReturn(i) ==
  CASE i = 1 -> simpleShellCdReturn
    [] i = 2 -> simpleShellHelpReturn
    [] i = 3 -> simpleShellEchoReturn
    [] i = 4 -> simpleShellExitReturn

\* wait status macros over the states waitpid reports
WIFEXITED(s) == s \in {"z_exit0", "z_exit1", "z_execfail"}

WIFSIGNALED(s) == s = "z_sig"

WaitAgain_once(s) == FALSE

\* The condition of startProcess's while loop: wait again.
WaitAgain(s) == ~WIFEXITED(s) /\ ~WIFSIGNALED(s)

ChildExitCode_zero(s) == IF s \in {"z_exit0", "z_exit1", "z_execfail"} THEN 0 ELSE NoCode

\* Exit code carried by a terminated child: exit(1) after a failed execvp.
ChildExitCode(s) ==
  CASE s = "z_exit0" -> 0
    [] s = "z_exit1" -> 1
    [] s = "z_execfail" -> 1
    [] OTHER -> NoCode

Zombie(s) == s \in {"z_exit0", "z_exit1", "z_execfail", "z_sig"}

Unreaped == {c \in ChildPids : children[c] # "none"}

\* The targets signalHandler calls kill() on, given the value of pid it reads.
signalHandlerKills(p) == IF p # NoPid THEN {p} ELSE {}

signalHandlerPc_resumes(at) == at

\* Where the main control flow is after signalHandler: exit(0) ends the process.
signalHandlerPc(at) == "dead"

ForkFailed_never(r) == FALSE

\* else if (pid < 0): fork could not create a process.
ForkFailed(r) == r < 0

\* exit(1) of the fork-failure branch.
ForkFailExit == 1

\* perror("simple-shell")
Perror == <<"simple-shell: ", "strerror(errno)", "\n">>

ResetPid_kept(p) == p

\* The value startProcess leaves in pid before returning.
ResetPid(p) == NoPid

----------------------------------------------------------------------------
Init ==
  /\ pc = "main"
  /\ handlerSet = FALSE
  /\ pid = NoPid
  /\ status = 1
  /\ line = <<>>
  /\ lineSrc = "none"
  /\ tokens = <<>>
  /\ eof = FALSE
  /\ cwd = StartDir
  /\ out = <<>>
  /\ ret = 0
  /\ child_status = "uninit"
  /\ children = [c \in ChildPids |-> "none"]
  /\ kills = {}
  /\ termBy = "none"
  /\ exitCode = NoCode
  /\ intAt = "none"
  /\ intLive = {}
  /\ err = <<>>
  /\ num_tokens = 0

Alive == termBy = "none"

\* When the process ends, its buffers and locals end with it.
ImageGone ==
  /\ line' = <<>>
  /\ lineSrc' = "none"
  /\ tokens' = <<>>
  /\ ret' = 0
  /\ child_status' = "uninit"
  /\ num_tokens' = 0

----------------------------------------------------------------------------
(* main and mainLoop *)

\* main: signal(SIGINT, signalHandler); then mainLoop prints the first prompt.
Main ==
  /\ Alive /\ pc = "main"
  /\ handlerSet' = TRUE
  /\ pc' = "prompt0"
  /\ UNCHANGED <<err, num_tokens, pid, status, line, lineSrc, tokens, eof, cwd, out, ret,
                 child_status, children, kills, termBy, exitCode, intAt, intLive>>

FirstPrompt ==
  /\ Alive /\ pc = "prompt0"
  /\ out' = Prompt
  /\ status' = 1
  /\ pc' = "loop"
  /\ UNCHANGED <<err, num_tokens, handlerSet, pid, line, lineSrc, tokens, eof, cwd, ret,
                 child_status, children, kills, termBy, exitCode, intAt, intLive>>

\* while (status)
LoopTest ==
  /\ Alive /\ pc = "loop"
  /\ pc' = IF status # 0 THEN "read" ELSE "final"
  /\ UNCHANGED <<err, num_tokens, handlerSet, pid, status, line, lineSrc, tokens, eof, cwd, out,
                 ret, child_status, children, kills, termBy, exitCode, intAt, intLive>>

\* readLine when getline stores a line.  The buffer is never NULL, so the
\* test of mainLoop (line != NULL) passes.
ReadLine ==
  /\ Alive /\ pc = "read" /\ ~eof
  /\ \E l \in InputLines : line' = l
  /\ lineSrc' = "input"
  /\ pc' = "parse"
  /\ UNCHANGED <<err, num_tokens, handlerSet, pid, status, tokens, eof, cwd, out, ret,
                 child_status, children, kills, termBy, exitCode, intAt, intLive>>

\* readLine at end-of-input: getline returns -1, the return value is dropped
\* and the unwritten buffer is returned.
ReadEof ==
  /\ Alive /\ pc = "read"
  /\ eof' = TRUE
  /\ \E l \in StaleBuffers : line' = l
  /\ lineSrc' = "eof"
  /\ pc' = "parse"
  /\ UNCHANGED <<err, num_tokens, handlerSet, pid, status, tokens, cwd, out, ret,
                 child_status, children, kills, termBy, exitCode, intAt, intLive>>

\* tokens = parseLine(line, &num_tokens)
Parse ==
  /\ Alive /\ pc = "parse"
  /\ \E arr \in TokenArrays(line) : tokens' = arr
  /\ num_tokens' = Len(parseLine(line))
  /\ pc' = "exec"
  /\ UNCHANGED <<err, handlerSet, pid, status, line, lineSrc, eof, cwd, out, ret,
                 child_status, children, kills, termBy, exitCode, intAt, intLive>>

\* executeCommand up to the point where it has chosen what to run.
Dispatch ==
  /\ Alive /\ pc = "exec"
  /\ IF Arg(tokens, 0) = <<>>
       THEN /\ status' = 1
            /\ pc' = "prompt"
       ELSE /\ status' = status
            /\ pc' = IF FindBuiltin(Arg(tokens, 0), 1) # 0 THEN "builtin" ELSE "fork"
  /\ UNCHANGED <<err, num_tokens, handlerSet, pid, line, lineSrc, tokens, eof, cwd, out, ret,
                 child_status, children, kills, termBy, exitCode, intAt, intLive>>

\* simpleShellCd
simpleShellCd ==
  /\ Alive /\ pc = "builtin" /\ FindBuiltin(Arg(tokens, 0), 1) = 1
  /\ cwd' = simpleShellCdCwd(tokens, cwd)
  /\ out' = IF Arg(tokens, 1) # <<>> /\ chdir(Arg(tokens, 1)) = -1 THEN CdFailed ELSE out
  /\ status' = BuiltinReturn(1)
  /\ pc' = "prompt"
  /\ UNCHANGED <<err, num_tokens, handlerSet, pid, line, lineSrc, tokens, eof, ret,
                 child_status, children, kills, termBy, exitCode, intAt, intLive>>

\* simpleShellHelp
simpleShellHelp ==
  /\ Alive /\ pc = "builtin" /\ FindBuiltin(Arg(tokens, 0), 1) = 2
  /\ out' = HelpText
  /\ status' = BuiltinReturn(2)
  /\ pc' = "prompt"
  /\ UNCHANGED <<err, num_tokens, handlerSet, pid, line, lineSrc, tokens, eof, cwd, ret,
                 child_status, children, kills, termBy, exitCode, intAt, intLive>>

\* simpleShellEcho
simpleShellEcho ==
  /\ Alive /\ pc = "builtin" /\ FindBuiltin(Arg(tokens, 0), 1) = 3
  /\ out' = simpleShellEchoOutput(tokens)
  /\ status' = BuiltinReturn(3)
  /\ pc' = "prompt"
  /\ UNCHANGED <<err, num_tokens, handlerSet, pid, line, lineSrc, tokens, eof, cwd, ret,
                 child_status, children, kills, termBy, exitCode, intAt, intLive>>

\* simpleShellExit
simpleShellExit ==
  /\ Alive /\ pc = "builtin" /\ FindBuiltin(Arg(tokens, 0), 1) = 4
  /\ status' = BuiltinReturn(4)
  /\ pc' = "prompt"
  /\ UNCHANGED <<err, num_tokens, handlerSet, pid, line, lineSrc, tokens, eof, cwd, out, ret,
                 child_status, children, kills, termBy, exitCode, intAt, intLive>>

\* printf("simple-shell> ") after executeCommand
UpdatePrompt ==
  /\ Alive /\ pc = "prompt"
  /\ out' = Prompt
  /\ pc' = "free"
  /\ UNCHANGED <<err, num_tokens, handlerSet, pid, status, line, lineSrc, tokens, eof, cwd, ret,
                 child_status, children, kills, termBy, exitCode, intAt, intLive>>

\* free(line); free(tokens).  The iteration's values are gone: the buffers
\* are freed and what startProcess left in its dead local is never read again.
Free ==
  /\ Alive /\ pc = "free"
  /\ line' = <<>>
  /\ lineSrc' = "none"
  /\ tokens' = <<>>
  /\ num_tokens' = 0
  /\ child_status' = "uninit"
  /\ pc' = "loop"
  /\ UNCHANGED <<err, handlerSet, pid, status, eof, cwd, out, ret,
                 children, kills, termBy, exitCode, intAt, intLive>>

\* printf("\n"); return to main; return 0
Return ==
  /\ Alive /\ pc = "final"
  /\ out' = <<"\n">>
  /\ termBy' = "return"
  /\ exitCode' = 0
  /\ pc' = "dead"
  /\ ImageGone
  /\ UNCHANGED <<err, handlerSet, pid, status, eof, cwd, children, kills, intAt, intLive>>

----------------------------------------------------------------------------
(* startProcess, parent side *)

\* fork() succeeds: a child with a free process id exists from now on; the
\* parent holds the id in fork's return value.  Process ids are
\* interchangeable, so the lowest free one stands for whichever the kernel
\* picks.
Fork ==
  /\ Alive /\ pc = "fork"
  /\ \E c \in ChildPids :
       /\ children[c] = "none"
       /\ \A b \in ChildPids : b < c => children[b] # "none"
       /\ children' = [children EXCEPT ![c] = "forked"]
       /\ ret' = c
  /\ pc' = "store"
  /\ UNCHANGED <<err, num_tokens, handlerSet, pid, status, line, lineSrc, tokens, eof, cwd, out,
                 child_status, kills, termBy, exitCode, intAt, intLive>>

\* fork() fails and returns -1.
ForkFail ==
  /\ Alive /\ pc = "fork"
  /\ ret' = -1
  /\ pc' = "store"
  /\ UNCHANGED <<err, num_tokens, handlerSet, pid, status, line, lineSrc, tokens, eof, cwd, out,
                 child_status, children, kills, termBy, exitCode, intAt, intLive>>

\* pid = <value fork returned>, then the branch on it: pid < 0 is
\* perror("simple-shell") + exit(1), pid > 0 enters waitpid.
StorePid ==
  /\ Alive /\ pc = "store"
  /\ pid' = ret
  /\ IF ForkFailed(ret)
       THEN /\ err' = Perror
            /\ termBy' = "forkfail"
            /\ exitCode' = ForkFailExit
            /\ pc' = "dead"
            /\ ImageGone
       ELSE /\ pc' = "wait"
            /\ ret' = 0
            /\ UNCHANGED <<termBy, exitCode, line, lineSrc, tokens, child_status,
                           err, num_tokens>>
  /\ UNCHANGED <<handlerSet, status, eof, cwd, out, children, kills, intAt, intLive>>

\* waitpid(pid, &child_status, WUNTRACED) returns: the child has terminated
\* (and is reaped), or has stopped and the stop was not reported yet.
Waitpid ==
  /\ Alive /\ pc = "wait" /\ pid \in ChildPids
  /\ \/ /\ Zombie(children[pid])
        /\ child_status' = children[pid]
        /\ children' = [children EXCEPT ![pid] = "none"]
     \/ /\ children[pid] = "stopped_new"
        /\ child_status' = "stopped"
        /\ children' = [children EXCEPT ![pid] = "stopped"]
  /\ pc' = "check"
  /\ UNCHANGED <<err, num_tokens, handlerSet, pid, status, line, lineSrc, tokens, eof, cwd, out,
                 ret, kills, termBy, exitCode, intAt, intLive>>

\* while (!WIFEXITED(child_status) && !WIFSIGNALED(child_status))
WaitCheck ==
  /\ Alive /\ pc = "check"
  /\ pc' = IF WaitAgain(child_status) THEN "wait" ELSE "reset"
  /\ UNCHANGED <<err, num_tokens, handlerSet, pid, status, line, lineSrc, tokens, eof, cwd, out,
                 ret, child_status, children, kills, termBy, exitCode, intAt, intLive>>

\* pid = -1; return 1 (through executeCommand into status)
ResetAndReturn ==
  /\ Alive /\ pc = "reset"
  /\ pid' = ResetPid(pid)
  /\ status' = startProcessReturn
  /\ pc' = "prompt"
  /\ UNCHANGED <<err, num_tokens, handlerSet, line, lineSrc, tokens, eof, cwd, out, ret,
                 child_status, children, kills, termBy, exitCode, intAt, intLive>>

----------------------------------------------------------------------------
(* The forked child.  It starts as a copy of the interpreter: same handler,  *)
(* its own copy of pid, which still holds -1 until the child's side of       *)
(* "pid = fork()" stores 0.                                                  *)

\* The child's own copy of the global pid.
ChildPidCopy(s) == IF s = "forked" THEN NoPid ELSE 0

ChildStorePid(c) ==
  /\ children[c] = "forked"
  /\ children' = [children EXCEPT ![c] = "prexec"]
  /\ UNCHANGED <<err, num_tokens, pc, handlerSet, pid, status, line, lineSrc, tokens, eof, cwd, out,
                 ret, child_status, kills, termBy, exitCode, intAt, intLive>>

\* execvp(args[0], args) replaces the image ...
ChildExec(c) ==
  /\ children[c] = "prexec"
  /\ children' = [children EXCEPT ![c] = "running"]
  /\ UNCHANGED <<err, num_tokens, pc, handlerSet, pid, status, line, lineSrc, tokens, eof, cwd, out,
                 ret, child_status, kills, termBy, exitCode, intAt, intLive>>

\* ... or returns -1: perror, exit(1) in the child.
ChildExecFail(c) ==
  /\ children[c] = "prexec"
  /\ children' = [children EXCEPT ![c] = "z_execfail"]
  /\ UNCHANGED <<err, num_tokens, pc, handlerSet, pid, status, line, lineSrc, tokens, eof, cwd, out,
                 ret, child_status, kills, termBy, exitCode, intAt, intLive>>

\* SIGINT delivered to the child before execvp: the inherited signalHandler
\* runs on the child's copy of pid, then exit(0).
ChildSigint(c) ==
  /\ children[c] \in {"forked", "prexec"}
  /\ kills' = kills \cup {[by |-> "child", target |-> t] :
                            t \in signalHandlerKills(ChildPidCopy(children[c]))}
  /\ children' = [children EXCEPT ![c] = "z_exit0"]
  /\ UNCHANGED <<err, num_tokens, pc, handlerSet, pid, status, line, lineSrc, tokens, eof, cwd, out,
                 ret, child_status, termBy, exitCode, intAt, intLive>>

\* The external program ends by itself, is killed by a signal, is suspended
\* or resumed.
ChildExit(c) ==
  /\ children[c] = "running"
  /\ \E z \in {"z_exit0", "z_exit1"} : children' = [children EXCEPT ![c] = z]
  /\ UNCHANGED <<err, num_tokens, pc, handlerSet, pid, status, line, lineSrc, tokens, eof, cwd, out,
                 ret, child_status, kills, termBy, exitCode, intAt, intLive>>

ChildKilled(c) ==
  /\ children[c] \in {"running", "stopped_new", "stopped"}
  /\ children' = [children EXCEPT ![c] = "z_sig"]
  /\ UNCHANGED <<err, num_tokens, pc, handlerSet, pid, status, line, lineSrc, tokens, eof, cwd, out,
                 ret, child_status, kills, termBy, exitCode, intAt, intLive>>

ChildStop(c) ==
  /\ children[c] = "running"
  /\ children' = [children EXCEPT ![c] = "stopped_new"]
  /\ UNCHANGED <<err, num_tokens, pc, handlerSet, pid, status, line, lineSrc, tokens, eof, cwd, out,
                 ret, child_status, kills, termBy, exitCode, intAt, intLive>>

ChildCont(c) ==
  /\ children[c] \in {"stopped_new", "stopped"}
  /\ children' = [children EXCEPT ![c] = "running"]
  /\ UNCHANGED <<err, num_tokens, pc, handlerSet, pid, status, line, lineSrc, tokens, eof, cwd, out,
                 ret, child_status, kills, termBy, exitCode, intAt, intLive>>

----------------------------------------------------------------------------
(* SIGINT delivered to the interpreter *)

\* Before signal() has run the default action kills the process.
SigintDefault ==
  /\ Alive /\ ~handlerSet
  /\ termBy' = "signal"
  /\ intAt' = pc
  /\ intLive' = Unreaped
  /\ pc' = "dead"
  /\ ImageGone
  /\ UNCHANGED <<err, handlerSet, pid, status, eof, cwd, out, children, kills, exitCode>>

\* signalHandler: notice, kill(pid, SIGINT) if pid != -1, exit(0).  The main
\* flow is suspended while it runs, so it is one step.
signalHandler ==
  /\ Alive /\ handlerSet
  /\ out' = Notice
  /\ kills' = kills \cup {[by |-> "shell", target |-> t] : t \in signalHandlerKills(pid)}
  /\ intAt' = pc
  /\ intLive' = Unreaped
  /\ pc' = signalHandlerPc(pc)
  /\ IF signalHandlerPc(pc) = "dead"
       THEN termBy' = "handler" /\ exitCode' = 0 /\ ImageGone
       ELSE UNCHANGED <<termBy, exitCode, line, lineSrc, tokens, ret, child_status,
                        num_tokens>>
  /\ UNCHANGED <<err, handlerSet, pid, status, eof, cwd, children>>

----------------------------------------------------------------------------
\* The interpreter's own steps: everything but the arrival of input.  Waitpid
\* is among them, enabled once the child has changed state.
ShellStep ==
  \/ Main \/ FirstPrompt \/ LoopTest \/ Parse \/ Dispatch
  \/ simpleShellCd \/ simpleShellHelp \/ simpleShellEcho \/ simpleShellExit
  \/ UpdatePrompt \/ Free \/ Return
  \/ Fork \/ ForkFail \/ StorePid \/ Waitpid \/ WaitCheck \/ ResetAndReturn

Next ==
  \/ Main \/ FirstPrompt \/ LoopTest \/ ReadLine \/ ReadEof \/ Parse \/ Dispatch
  \/ simpleShellCd \/ simpleShellHelp \/ simpleShellEcho \/ simpleShellExit
  \/ UpdatePrompt \/ Free \/ Return
  \/ Fork \/ ForkFail \/ StorePid \/ Waitpid \/ WaitCheck \/ ResetAndReturn
  \/ \E c \in ChildPids : ChildStorePid(c)
  \/ \E c \in ChildPids : ChildExec(c)
  \/ \E c \in ChildPids : ChildExecFail(c)
  \/ \E c \in ChildPids : ChildSigint(c)
  \/ \E c \in ChildPids : ChildExit(c)
  \/ \E c \in ChildPids : ChildKilled(c)
  \/ \E c \in ChildPids : ChildStop(c)
  \/ \E c \in ChildPids : ChildCont(c)
  \/ SigintDefault \/ signalHandler

Spec == Init /\ [][Next]_vars

\* parseLine and executeCommand's choice on their own: mainLoop has just read
\* a line, short or long, and tokenizes and dispatches it.
ParseInit ==
  /\ pc = "parse"
  /\ handlerSet = TRUE
  /\ pid = NoPid
  /\ status = 1
  /\ line \in InputLines \cup LongLines
  /\ lineSrc = "input"
  /\ tokens = <<>>
  /\ eof = FALSE
  /\ cwd = StartDir
  /\ out = Prompt
  /\ ret = 0
  /\ child_status = "uninit"
  /\ children = [c \in ChildPids |-> "none"]
  /\ kills = {}
  /\ termBy = "none"
  /\ exitCode = NoCode
  /\ intAt = "none"
  /\ intLive = {}
  /\ err = <<>>
  /\ num_tokens = 0

ParseNext == Parse \/ Dispatch

ParseSpec == ParseInit /\ [][ParseNext]_vars

\* The interpreter's own steps are taken when they can be; input, signals and
\* what the children do are the environment's and carry no fairness.
FairSpec == Spec /\ WF_vars(ShellStep)

----------------------------------------------------------------------------
(* Properties *)

\* The steps that read a line, dispatch a command or call fork.
ReadStep == ReadLine \/ ReadEof

ForkStep == Fork \/ ForkFail

\* pc values inside startProcess.
InLaunch == pc \in {"fork", "store", "wait", "check", "reset"}

\* C1: once the Line Reader has met end-of-input, nothing is tokenized or
\* executed from that read and the loop does not iterate again: the loop is
\* stopped (status 0 on the way out) and the interpreter ends with exit code 0.
C1_EofStopsLoop ==
  eof => /\ pc \in {"free", "loop", "final", "dead"}
         /\ lineSrc # "eof"
         /\ (pc = "loop" => status = 0)
         /\ (termBy # "none" => exitCode = 0)

\* C2: when SIGINT reached the handler at a moment at which no forked child
\* was unreaped, the handler has called kill on no process.
C2_NoKillWithoutChild ==
  (termBy = "handler" /\ intLive = {}) => ~\E k \in kills : k.by = "shell"

\* C3: when SIGINT reached the handler at a moment at which a forked child
\* existed unreaped, the handler has sent SIGINT to that child.
C3_KillForwarded ==
  (termBy = "handler" /\ intLive # {}) =>
     \A c \in intLive : [by |-> "shell", target |-> c] \in kills

\* C4: once SIGINT has been delivered to the interpreter, its control flow is
\* ended for good: no line is read, no command dispatched, no child forked.
C4_InterruptEnds ==
  [][intAt # "none" =>
       /\ pc' = "dead"
       /\ ~(ReadStep \/ Parse \/ Dispatch \/ ForkStep)]_vars

C4_Witness == termBy = "handler" /\ intAt \in {"read", "parse", "builtin", "wait"}

\* C5: the interpreter leaves startProcess for the prompt only after waitpid
\* has reported that the child named by the handle exited or was killed by a
\* signal (a "stopped" report never ends the wait), and once that child has
\* exited or been signaled the interpreter gets back to reading at the
\* prompt, unless an interrupt ends the interpreter first.
C5_ForegroundWait ==
  /\ [][(InLaunch /\ pc' \notin {"fork", "store", "wait", "check", "reset", "dead"}) =>
          /\ pid \in ChildPids
          /\ Zombie(child_status)
          /\ children[pid] = "none"]_vars
  /\ [][(pc = "check" /\ child_status = "stopped") => pc' \in {"check", "wait", "dead"}]_vars
  /\ ((Alive /\ pc = "wait" /\ pid \in ChildPids /\ Zombie(children[pid]))
        ~> (pc = "read" \/ ~Alive))

C5_Witness == Alive /\ pc = "wait" /\ child_status = "stopped" /\ pid \in ChildPids

\* C6: in every state of the interpreter outside startProcess (before the
\* first prompt, printing a prompt, reading, tokenizing, dispatching, running
\* a builtin, freeing, leaving the loop) the handle pid is -1.
C6_HandleCleared ==
  (Alive /\ ~InLaunch) => pid = NoPid

C6_Witness ==
  /\ Alive /\ pc = "prompt" /\ pid = NoPid
  /\ Arg(tokens, 0) # <<>> /\ FindBuiltin(Arg(tokens, 0), 1) = 0

\* C7: a command whose first token is "exit" returns 0 whatever follows it;
\* from then on no line is read and no fork is called, the process can only
\* end with exit code 0, and it does end.
C7_ExitStops ==
  /\ [][(pc = "builtin" /\ Arg(tokens, 0) = <<"exit">> /\ pc' = "prompt") => status' = 0]_vars
  /\ [][status = 0 =>
          /\ status' = 0
          /\ ~(ReadStep \/ ForkStep)
          /\ (termBy' # "none" => exitCode' = 0)]_vars
  /\ ((status = 0) ~> (termBy # "none" /\ exitCode = 0))

C7_Witness == Alive /\ pc = "prompt" /\ status = 0 /\ Len(tokens) > 1

\* C8: whenever command execution returns to the loop for a token sequence
\* whose first token is not "exit", it returns 1 and the loop goes on to read.
C8_StopOnlyFromExit ==
  /\ [][(pc \in {"exec", "builtin", "reset"} /\ pc' = "prompt" /\ Arg(tokens, 0) # <<"exit">>)
          => status' = 1]_vars
  /\ [][(pc = "loop" /\ status = 1 /\ pc' # pc) => pc' \in {"read", "dead"}]_vars

C8_Witness ==
  /\ Alive /\ pc = "prompt" /\ status = 1
  /\ child_status = "z_sig" /\ Arg(tokens, 0) \notin {<<>>, <<"exit">>}

\* C9: no prompt is printed once command execution has returned 0.
C9_NoPromptAfterStop ==
  [][UpdatePrompt => status # 0]_vars

\* C10: a failed execvp ends only the child, with a non-zero status; the
\* interpreter is untouched by it, reaps the child, clears the handle, returns
\* 1 and gets back to reading (unless an interrupt ends it first).
C10_ExecFailConfined ==
  /\ [][\A c \in ChildPids :
          (children[c] = "prexec" /\ children'[c] = "z_execfail") =>
             /\ ChildExitCode(children'[c]) \notin {0, NoCode}
             /\ UNCHANGED <<pc, pid, status, termBy, exitCode>>]_vars
  /\ [][(pc = "reset" /\ child_status = "z_execfail" /\ pc' \notin {"reset", "dead"}) =>
          /\ children[pid] = "none"
          /\ pid' = NoPid
          /\ status' = 1
          /\ pc' = "prompt"]_vars
  /\ ((Alive /\ InLaunch /\ \E c \in ChildPids : children[c] = "z_execfail")
        ~> (pc = "read" \/ ~Alive))

C10_Witness ==
  /\ Alive /\ pc = "prompt" /\ child_status = "z_execfail"
  /\ pid = NoPid /\ status = 1

\* C11: when fork() has failed the interpreter leaves startProcess only by
\* ending: it waits on nothing and reads nothing, it reports the error on
\* stderr and exits with a non-zero code (unless an interrupt arrives first
\* and ends it), and it does end.
C11_ForkFailFatal ==
  /\ [][(pc = "store" /\ ret < 0 /\ pc' # pc) =>
          /\ pc' = "dead"
          /\ termBy' \in {"forkfail", "handler"}
          /\ (termBy' = "forkfail" =>
                exitCode' \notin {0, NoCode} /\ err' = Perror)
          /\ children' = children]_vars
  /\ [][(pid = NoPid /\ ret < 0) => ~(Waitpid \/ ReadStep \/ UpdatePrompt)]_vars
  /\ ((Alive /\ pc = "store" /\ ret < 0) ~> ~Alive)

C11_Witness == termBy = "forkfail" /\ exitCode = 1 /\ err = Perror /\ pid = NoPid

\* C12: cd without a path leaves the working directory alone; cd to a
\* directory that can be entered makes it the working directory; cd to any
\* other path leaves the working directory alone and prints the failure
\* message.  In all three cases it returns 1, creates no child and leaves the
\* handle as it was.
C12_CdEffects ==
  [][(pc = "builtin" /\ Arg(tokens, 0) = <<"cd">> /\ pc' = "prompt") =>
       /\ (Arg(tokens, 1) = <<>> => cwd' = cwd /\ out' = out)
       /\ (Arg(tokens, 1) \in Dirs => cwd' = Arg(tokens, 1) /\ out' = out)
       /\ (Arg(tokens, 1) \notin (Dirs \cup {<<>>}) => cwd' = cwd /\ out' = CdFailed)
       /\ status' = 1
       /\ children' = children
       /\ pid' = pid]_vars

C12_Witness ==
  /\ Alive /\ pc = "prompt" /\ Arg(tokens, 0) = <<"cd">>
  /\ cwd = <<"a">> /\ out = CdFailed /\ status = 1

\* The arguments args[i..] written with exactly one space between neighbours.
RECURSIVE JoinedBySpaces(_, _)
JoinedBySpaces(args, i) ==
  IF i > Len(args) THEN <<>>
  ELSE IF i = Len(args) THEN args[i]
  ELSE args[i] \o <<" ">> \o JoinedBySpaces(args, i + 1)

\* C13: echo writes its arguments joined by single spaces and then exactly
\* one newline, with no space before the first or after the last argument
\* (just the newline when there is no argument).
C13_EchoOutput ==
  [][(pc = "builtin" /\ Arg(tokens, 0) = <<"echo">> /\ pc' = "prompt") =>
       out' = JoinedBySpaces(tokens, 2) \o <<"\n">>]_vars

\* A maximal run of characters that are neither space nor newline starts at b
\* when l[b] is such a character and b is the first position or follows a
\* space or newline; it ends at the last position before the next one of
\* those (or at the end of the line).
IsBlank(c) == c = " " \/ c = "\n"

RunStarts(l) ==
  {b \in 1..Len(l) : ~IsBlank(l[b]) /\ (b = 1 \/ IsBlank(l[b - 1]))}

RunEnd(l, b) ==
  CHOOSE e \in b..Len(l) :
    /\ \A k \in b..e : ~IsBlank(l[k])
    /\ (e = Len(l) \/ IsBlank(l[e + 1]))

RECURSIVE RunsFrom(_, _)
RunsFrom(l, b) ==
  IF b > Len(l) THEN <<>>
  ELSE IF b \in RunStarts(l) THEN <<SubSeq(l, b, RunEnd(l, b))>> \o RunsFrom(l, b + 1)
  ELSE RunsFrom(l, b + 1)

MaximalRuns(l) == RunsFrom(l, 1)

C15_ArgvIsTokens ==
  pc \in {"exec", "builtin", "fork"} =>
     /\ Len(tokens) = num_tokens
     /\ tokens = MaximalRuns(line)

\* C18: for a line that fits the getline buffer (at most buffer_size - 1
\* characters) parseLine stores at most buffer_size / 2 tokens.
C18_TokenCapacity ==
  (pc = "exec" /\ LineChars(line) <= buffer_size - 1) =>
     /\ num_tokens <= buffer_size \div 2
     /\ Len(MaximalRuns(line)) = num_tokens

C18_Witness ==
  /\ pc = "exec" /\ LineChars(line) = buffer_size - 1
  /\ num_tokens = buffer_size \div 2

\* C16: single foreground job.  At most one forked child of the interpreter
\* is unreaped at any time, a fork creates a child only when no earlier child
\* is left unreaped, and startProcess is left only on a status that says the
\* child exited or was signaled.
C16_SingleForegroundJob ==
  /\ [](Cardinality(Unreaped) <= 1)
  /\ [][(\E c \in ChildPids : children[c] = "none" /\ children'[c] # "none") =>
          Unreaped = {}]_vars
  /\ [][(pc = "reset" /\ pc' = "prompt") =>
          child_status \in {"z_exit0", "z_exit1", "z_execfail", "z_sig"} /\ Unreaped = {}]_vars

\* A child is running in the foreground and is the only one.
C16_Witness ==
  Alive /\ pc = "wait" /\ Unreaped = {pid} /\ children[pid] = "running"

\* C17: builtin-vs-external resolution.  A command whose first token is
\* exactly cd, help, echo or exit, and the empty command, never reaches fork:
\* no child is created and pid is not written.  Any other first token leads
\* to fork, where one call of fork is made (and made only there) before the
\* interpreter moves on; the call is reached unless an interrupt ends the
\* interpreter first.
C17_Resolution ==
  /\ [][(pc \in {"exec", "builtin"} /\
         Arg(tokens, 0) \in {<<>>, <<"cd">>, <<"help">>, <<"echo">>, <<"exit">>}) =>
          /\ pc' \in {"exec", "builtin", "prompt", "dead"}
          /\ children' = children
          /\ pid' = pid]_vars
  /\ [][(pc = "exec" /\
         Arg(tokens, 0) \notin {<<>>, <<"cd">>, <<"help">>, <<"echo">>, <<"exit">>}) =>
          pc' \in {"exec", "fork", "dead"}]_vars
  /\ [][(pc' = "fork" /\ pc # "fork") => pc = "exec"]_vars
  /\ [][((\E c \in ChildPids : children[c] = "none" /\ children'[c] # "none") \/
         (ret' < 0 /\ ret >= 0)) =>
          pc = "fork" /\ pc' = "store"]_vars
  /\ [][(pc = "fork" /\ pc' # pc) => pc' \in {"store", "dead"}]_vars
  /\ ((Alive /\ pc = "fork") ~> (pc = "store" \/ ~Alive))

\* The word "cda" is not the builtin cd: fork has been called for it.
C17_Witness ==
  Alive /\ pc = "store" /\ Arg(tokens, 0) = <<"cd", "a">> /\ Unreaped = {ret}

\* C19: every kill any process running signalHandler issues targets an
\* unreaped child of the interpreter, never pid 0.
C19_HandlerSignalsOwnChild ==
  [][\A k \in kills' \ kills : k.target # 0 /\ k.target \in Unreaped]_vars

====
